---- MODULE Spec2Model ----
(***************************************************************************)
(* Model of scripts/write-to-file.py: an argparse command line with three  *)
(* required options -f, -c, -n, followed by one call of                    *)
(*     _write(file, content, new_line)                                     *)
(* which optionally prefixes a newline and appends the text to the file    *)
(* through `with open(file, "a") as f: f.write(content)`.                  *)
(*                                                                         *)
(* A process slot p runs one invocation of the script at a time; the       *)
(* filesystem fs is shared by all slots.  Text is a sequence of            *)
(* one-character strings; a file's data is the sequence of characters it   *)
(* holds.                                                                  *)
(***************************************************************************)
EXTENDS Integers, Sequences, FiniteSets, TLC

\* ------------------------------------------------------------------ bounds
\* longest -c argument that is tried
MaxLen == 1
\* number of invocations of the script in one behaviour of Spec
MaxInvocations == 2

\* ------------------------------------------------------------- environment
Procs == {1, 2}

\* "\n"
NL == "\n"
\* a lone surrogate: what sys.argv holds for an argument byte that is not
\* valid UTF-8 (surrogateescape); the strict codec of open() cannot encode it
Surrogate == "\\udcff"
Chars == {"a", NL, Surrogate}

\* paths that are tried as -f
Paths == {"out.txt", "dir", "nodir/out.txt", "ro.txt"}
\* a file no command line names
Bystander == "log.txt"
AllPaths == Paths \cup {Bystander}

NewlineFlags == {"True", "False", "true", " True"}
Flags == {"-f", "-c", "-n", "-h"}

Texts == UNION {[1..k -> Chars] : k \in 0..MaxLen}

AbsentEntry == [kind |-> "absent", data |-> <<>>]
DirEntry == [kind |-> "dir", data |-> <<>>]
FileEntry(d) == [kind |-> "file", data |-> d]

\* the parent directory of the path exists
ParentExists(path) == path # "nodir/out.txt"
\* the process may open the path for writing
Writable(path) == path # "ro.txt"

\* the file systems a behaviour starts from: out.txt is absent, empty or
\* holds "a"
InitialFs ==
  {[q \in AllPaths |->
      CASE q = "out.txt" -> e
        [] q = "dir" -> DirEntry
        [] q = "nodir/out.txt" -> AbsentEntry
        [] OTHER -> FileEntry(<<"a">>)] :
   e \in {AbsentEntry, FileEntry(<<>>), FileEntry(<<"a">>)}}

\* a command line: the options that are given, and the value of each (the
\* value of an option that is not given is empty)
CommandLines ==
  {cl \in [given : SUBSET Flags, f : Paths \cup {""}, c : Texts,
           n : NewlineFlags \cup {""}] :
     /\ ("-f" \in cl.given) <=> (cl.f # "")
     /\ ("-c" \notin cl.given) => (cl.c = <<>>)
     /\ ("-n" \in cl.given) <=> (cl.n # "")}

\* command lines of two invocations that run at the same time on out.txt
ConcCommandLines ==
  {cl \in CommandLines : cl.given = {"-f", "-c", "-n"} /\ cl.f = "out.txt"}

NoCommand == [given |-> {}, f |-> "", c |-> <<>>, n |-> ""]
NoHandle == [state |-> "none", path |-> "", buf |-> <<>>, pos |-> 0]
NoPrev == [ok |-> FALSE, cl |-> NoCommand, before |-> <<>>]

\* ------------------------------------------------------------------- state
VARIABLES
  fs,        \* path -> [kind, data]: the filesystem
  pc,        \* slot -> position in the script
  argv,      \* slot -> the command line of the running invocation
  args,      \* slot -> the Namespace parse_args returned (f, c, n)
  content,   \* slot -> local variable content of _write
  handle,    \* slot -> the file object f: state, path, buffered text, offset
  exc,       \* slot -> the exception that is propagating, or "none"
  status,    \* slot -> exit status of the finished invocation (-1: none yet)
  out,       \* slot -> the invocation wrote to standard output
  err,       \* slot -> the invocation wrote to standard error
  start,     \* slot -> history: the filesystem when the invocation started
  prev,      \* history: the invocation before the current one, when it
             \*          appended and ended with status 0
  expected,  \* history: path -> initial data followed by the payloads of
             \*          the successful invocations on it, in order
  count,     \* history: number of invocations started
  overlapped \* history: two slots held an open handle at the same time

vars == <<fs, pc, argv, args, content, handle, exc, status, out, err,
          start, prev, expected, count, overlapped>>

\* ------------------------------------------------------------ the program
\* variant of ParseOutcome: -n declared without required=True
ParseOutcome_OptionalN(cl) ==
  IF "-h" \in cl.given THEN "help"
  ELSE IF {"-f", "-c"} \subseteq cl.given THEN "ok"
  ELSE "error"

\* parse_args(): -h prints the usage and exits 0 as soon as it is met; a
\* required option that is not given is an error (exit 2); else a Namespace
ParseOutcome(cl) ==
  IF "-h" \in cl.given THEN "help"
  ELSE IF {"-f", "-c", "-n"} \subseteq cl.given THEN "ok"
  ELSE "error"

\* variant of Payload: the flag compared without regard to case
Payload_AnyCase(c, new_line) ==
  IF new_line \in {"True", "true"} THEN <<NL>> \o c ELSE c

\* if new_line == "True": content = "\n" + content
Payload(c, new_line) ==
  IF new_line = "True" THEN <<NL>> \o c ELSE c

\* variant of OpenError: a mode that does not create the file ("r+")
OpenError_MustExist(f, file) ==
  IF ~ParentExists(file) \/ f[file].kind = "absent" THEN "FileNotFoundError"
  ELSE IF f[file].kind = "dir" THEN "IsADirectoryError"
  ELSE IF ~Writable(file) THEN "PermissionError"
  ELSE "none"

\* the error open(file, "a") raises, or "none"
OpenError(f, file) ==
  IF ~ParentExists(file) THEN "FileNotFoundError"
  ELSE IF f[file].kind = "dir" THEN "IsADirectoryError"
  ELSE IF ~Writable(file) THEN "PermissionError"
  ELSE "none"

\* variant of OpenFile: mode "w", which truncates
OpenFile_Truncate(entry) == FileEntry(<<>>)

\* the entry open(file, "a") leaves: mode "a" creates an absent file and
\* keeps the data of an existing one
OpenFile(entry) ==
  IF entry.kind = "absent" THEN FileEntry(<<>>) ELSE entry

\* variant of LineSep: the line separator of Windows
LineSep_CRLF == <<"\r", NL>>

\* the text layer translates "\n" to os.linesep; "\n" on POSIX
LineSep == <<NL>>

\* the strict codec raises UnicodeEncodeError on a lone surrogate
Encodable(text) == \A i \in 1..Len(text) : text[i] # Surrogate

RECURSIVE Encode(_)
Encode(text) ==
  IF text = <<>> THEN <<>>
  ELSE (IF Head(text) = NL THEN LineSep ELSE <<Head(text)>>)
       \o Encode(Tail(text))

\* variant of FlushPos: the write lands at the offset the handle took when
\* it was opened (seek to the end, no O_APPEND)
FlushPos_AtOpen(data, pos) == pos

\* where a write through a handle opened in mode "a" lands: at the end the
\* file has when the write is made, whatever the offset of the handle
FlushPos(data, pos) == Len(data)

\* variant of WriteAt: nothing is written when the data already ends with
\* the bytes
WriteAt_Once(data, at, bytes) ==
  IF /\ Len(bytes) <= Len(data)
     /\ SubSeq(data, Len(data) - Len(bytes) + 1, Len(data)) = bytes
  THEN data
  ELSE SubSeq(data, 1, at) \o bytes
       \o SubSeq(data, at + Len(bytes) + 1, Len(data))

\* data after bytes are written at offset at
WriteAt(data, at, bytes) ==
  SubSeq(data, 1, at) \o bytes \o SubSeq(data, at + Len(bytes) + 1, Len(data))

\* variant of HandleAfterWith: open, write, close without a with block
HandleAfterWith_NoWith(e) == IF e = "none" THEN "closed" ELSE "open"

\* the handle when the with block is left: closed, exception or not
HandleAfterWith(e) == "closed"

\* variant of ExitStatus: the exception is swallowed
ExitStatus_Swallowed(e) == 0

\* exit status of the interpreter: 1 when an exception reaches the top level
ExitStatus(e) == IF e = "none" THEN 0 ELSE 1

\* variant of Target: a fixed file instead of the -f argument
Target_Fixed(a) == Bystander

\* the file _write is called on
Target(a) == a.f

\* the payload a command line stands for: its -c text, after a newline when
\* its -n text is True
PayloadOf(cl) == (IF cl.n = "True" THEN <<NL>> ELSE <<>>) \o cl.c

\* the invocation of slot p ends with status st; o, e: it wrote to standard
\* output, to standard error
Finish(p, st, o, e) ==
  /\ pc' = [pc EXCEPT ![p] = "done"]
  /\ status' = [status EXCEPT ![p] = st]
  /\ out' = [out EXCEPT ![p] = o]
  /\ err' = [err EXCEPT ![p] = e]
  /\ expected' = IF st = 0 /\ pc[p] = "close"
                 THEN [expected EXCEPT ![argv[p].f] = @ \o PayloadOf(argv[p])]
                 ELSE expected

\* the script is started with a command line
Invoke(p) ==
  /\ pc[p] = "idle"
  /\ count < MaxInvocations
  /\ \E cl \in CommandLines : argv' = [argv EXCEPT ![p] = cl]
  /\ pc' = [pc EXCEPT ![p] = "parse"]
  /\ start' = [start EXCEPT ![p] = fs]
  /\ count' = count + 1
  /\ UNCHANGED <<fs, args, content, handle, exc, status, out, err, prev,
                 expected, overlapped>>

\* the process is gone: nothing of it is left but what it did to the
\* filesystem
Exit(p) ==
  /\ pc[p] = "done"
  /\ pc' = [pc EXCEPT ![p] = "idle"]
  /\ argv' = [argv EXCEPT ![p] = NoCommand]
  /\ args' = [args EXCEPT ![p] = NoCommand]
  /\ content' = [content EXCEPT ![p] = <<>>]
  /\ handle' = [handle EXCEPT ![p] = NoHandle]
  /\ exc' = [exc EXCEPT ![p] = "none"]
  /\ status' = [status EXCEPT ![p] = -1]
  /\ out' = [out EXCEPT ![p] = FALSE]
  /\ err' = [err EXCEPT ![p] = FALSE]
  /\ start' = [start EXCEPT ![p] = fs]
  /\ prev' = IF status[p] = 0 /\ handle[p].state # "none"
             THEN [ok |-> TRUE, cl |-> argv[p],
                   before |-> start[p][argv[p].f].data]
             ELSE NoPrev
  /\ UNCHANGED <<fs, expected, count, overlapped>>

\* two invocations on out.txt are started together
InvokeBoth ==
  /\ \A p \in Procs : pc[p] = "idle"
  /\ count = 0
  /\ \E c1 \in ConcCommandLines, c2 \in ConcCommandLines :
       /\ pc' = [p \in Procs |-> "parse"]
       /\ argv' = [p \in Procs |-> IF p = 1 THEN c1 ELSE c2]
       /\ start' = [p \in Procs |-> fs]
  /\ count' = count + 2
  /\ UNCHANGED <<fs, args, content, handle, exc, status, out, err, prev,
                 expected, overlapped>>

\* args = parser.parse_args()
ParseArgs(p) ==
  /\ pc[p] = "parse"
  /\ LET r == ParseOutcome(argv[p]) IN
       IF r = "ok"
       THEN /\ args' = [args EXCEPT ![p] = argv[p]]
            /\ pc' = [pc EXCEPT ![p] = "call"]
            /\ UNCHANGED <<status, out, err, expected>>
       ELSE /\ Finish(p, IF r = "help" THEN 0 ELSE 2, r = "help",
                      r = "error")
            /\ UNCHANGED args
  /\ UNCHANGED <<fs, argv, content, handle, exc, start, prev, count,
                 overlapped>>

\* _write(args.f, args.c, args.n): the if statement
Prefix(p) ==
  /\ pc[p] = "call"
  /\ content' = [content EXCEPT ![p] = Payload(args[p].c, args[p].n)]
  /\ pc' = [pc EXCEPT ![p] = "open"]
  /\ UNCHANGED <<fs, argv, args, handle, exc, status, out, err, start, prev,
                 expected, count, overlapped>>

\* open(file, "a")
Open(p) ==
  /\ pc[p] = "open"
  /\ LET file == Target(args[p])
         e == OpenError(fs, file) IN
       IF e = "none"
       THEN /\ fs' = [fs EXCEPT ![file] = OpenFile(@)]
            /\ handle' = [handle EXCEPT ![p] =
                 [state |-> "open", path |-> file, buf |-> <<>>,
                  pos |-> Len(OpenFile(fs[file]).data)]]
            /\ pc' = [pc EXCEPT ![p] = "write"]
            /\ overlapped' =
                 (overlapped \/ \E q \in Procs \ {p} : handle[q].state = "open")
            /\ UNCHANGED <<exc, status, out, err, expected>>
       ELSE /\ exc' = [exc EXCEPT ![p] = e]
            /\ Finish(p, ExitStatus(e), FALSE, TRUE)
            /\ UNCHANGED <<fs, handle, overlapped>>
  /\ UNCHANGED <<argv, args, content, start, prev, count>>

\* f.write(content): the text is encoded and kept in the buffer of f
Write(p) ==
  /\ pc[p] = "write"
  /\ IF Encodable(content[p])
     THEN /\ handle' = [handle EXCEPT ![p].buf = @ \o Encode(content[p])]
          /\ UNCHANGED exc
     ELSE /\ exc' = [exc EXCEPT ![p] = "UnicodeEncodeError"]
          /\ UNCHANGED handle
  /\ pc' = [pc EXCEPT ![p] = "close"]
  /\ UNCHANGED <<fs, argv, args, content, status, out, err, start, prev,
                 expected, count, overlapped>>

\* the with block is left: the buffer is flushed and f is closed; then the
\* script ends, or the exception ends it
Close(p) ==
  /\ pc[p] = "close"
  /\ LET h == handle[p] IN
       /\ fs' = [fs EXCEPT ![h.path].data =
                   WriteAt(@, FlushPos(@, h.pos), h.buf)]
       /\ handle' = [handle EXCEPT ![p] =
                       [h EXCEPT !.state = HandleAfterWith(exc[p]),
                                 !.buf = <<>>]]
  /\ Finish(p, ExitStatus(exc[p]), FALSE, exc[p] # "none")
  /\ UNCHANGED <<argv, args, content, exc, start, prev, count, overlapped>>

Init ==
  /\ fs \in InitialFs
  /\ pc = [p \in Procs |-> "idle"]
  /\ argv = [p \in Procs |-> NoCommand]
  /\ args = [p \in Procs |-> NoCommand]
  /\ content = [p \in Procs |-> <<>>]
  /\ handle = [p \in Procs |-> NoHandle]
  /\ exc = [p \in Procs |-> "none"]
  /\ status = [p \in Procs |-> -1]
  /\ out = [p \in Procs |-> FALSE]
  /\ err = [p \in Procs |-> FALSE]
  /\ start = [p \in Procs |-> fs]
  /\ prev = NoPrev
  /\ expected = [q \in AllPaths |-> fs[q].data]
  /\ count = 0
  /\ overlapped = FALSE

\* one invocation after the other
Next ==
  \/ Invoke(1)
  \/ ParseArgs(1)
  \/ Prefix(1)
  \/ Open(1)
  \/ Write(1)
  \/ Close(1)
  \/ Exit(1)

Spec == Init /\ [][Next]_vars

\* two invocations at the same time
NextConc ==
  \/ InvokeBoth
  \/ \E p \in Procs : ParseArgs(p)
  \/ \E p \in Procs : Prefix(p)
  \/ \E p \in Procs : Open(p)
  \/ \E p \in Procs : Write(p)
  \/ \E p \in Procs : Close(p)
  \/ \E p \in Procs : Exit(p)

SpecConc == Init /\ [][NextConc]_vars

\* ---------------------------------------------------------------- claims
\* s is a prefix of t
IsPrefix(s, t) == Len(s) <= Len(t) /\ SubSeq(t, 1, Len(s)) = s

\* the invocation of slot p has ended
Done(p) == pc[p] = "done"
\* -f, -c and -n are all on the command line of slot p
AllGiven(p) == {"-f", "-c", "-n"} \subseteq argv[p].given
\* the command line of slot p has the three options and no -h
WellFormed(p) == AllGiven(p) /\ "-h" \notin argv[p].given
\* the invocation of slot p appended and ended with status 0
Succeeded(p) == Done(p) /\ status[p] = 0 /\ WellFormed(p)
\* data of the target of slot p when the invocation started, and now
Before(p) == start[p][argv[p].f].data
After(p) == fs[argv[p].f].data
\* no path but the target of slot p differs from what it was at the start
OthersUnchanged(p) ==
  \A q \in AllPaths \ {argv[p].f} : fs[q] = start[p][q]

\* C1: a successful invocation whose -n text is not exactly True leaves the
\* file holding its former data followed by the -c text, nothing else
C1_AppendVerbatim ==
  (Succeeded(1) /\ argv[1].n # "True")
    => (After(1) = Before(1) \o argv[1].c /\ fs[argv[1].f].kind = "file")

C1_Witness ==
  /\ Succeeded(1)
  /\ argv[1].n = "true"
  /\ argv[1].c = <<"a">>
  /\ Before(1) = <<"a">>
  /\ After(1) = <<"a", "a">>

\* C2: a successful invocation whose -n text is True leaves the file holding
\* its former data, one newline, and the -c text
C2_AppendAfterNewline ==
  (Succeeded(1) /\ argv[1].n = "True")
    => (After(1) = Before(1) \o <<NL>> \o argv[1].c
        /\ fs[argv[1].f].kind = "file")

C2_Witness ==
  /\ Succeeded(1)
  /\ argv[1].n = "True"
  /\ argv[1].c = <<"a">>
  /\ Before(1) = <<"a">>
  /\ After(1) = <<"a", NL, "a">>

\* the target of slot p was absent at the start, in a directory that exists,
\* and may be written
AbsentTarget(p) ==
  /\ WellFormed(p)
  /\ start[p][argv[p].f].kind = "absent"
  /\ ParentExists(argv[p].f)
  /\ Writable(argv[p].f)

CannotAppend(p) ==
  /\ WellFormed(p)
  /\ \/ ~ParentExists(argv[p].f)
     \/ ~Writable(argv[p].f)
     \/ start[p][argv[p].f].kind = "dir"

\* C6: when the parent directory is missing, the file may not be written or
\* the path is a directory, the error reaches the top level: the invocation
\* ends with a status that is not 0, without a second attempt and without a
\* change to the filesystem; so does any invocation in which an error was
\* raised
C6_ErrorIsFatal ==
  /\ (Done(1) /\ CannotAppend(1))
       => /\ status[1] # 0
          /\ exc[1] # "none"
          /\ handle[1].state = "none"
          /\ fs = start[1]
  /\ (Done(1) /\ exc[1] # "none") => (status[1] # 0 /\ err[1])
  /\ (exc[1] # "none") => pc[1] \in {"close", "done"}

C6_Witness ==
  /\ Done(1)
  /\ WellFormed(1)
  /\ argv[1].f = "dir"
  /\ exc[1] = "IsADirectoryError"
  /\ status[1] = 1

\* C7: the handle is open exactly between open() and the end of the with
\* block, the payload is computed before it is opened, and no invocation
\* ends with the handle open, the one whose write raised included
C7_HandleScoped ==
  /\ handle[1].state = "open" <=> pc[1] \in {"write", "close"}
  /\ handle[1].state = "open" => content[1] = PayloadOf(argv[1])
  /\ Done(1) => handle[1].state \in {"none", "closed"}
  /\ (Done(1) /\ exc[1] = "UnicodeEncodeError") => handle[1].state = "closed"

C7_Witness ==
  /\ Done(1)
  /\ exc[1] = "UnicodeEncodeError"
  /\ handle[1].state = "closed"
  /\ status[1] = 1

\* C8: the second of two successful invocations with the same command line
\* and a payload that is not empty leaves the data the first found, followed
\* by the payload twice; the first had left it followed by the payload once,
\* which is different
C8_NotIdempotent ==
  (Succeeded(1) /\ prev.ok /\ prev.cl = argv[1] /\ PayloadOf(argv[1]) # <<>>)
    => /\ Before(1) = prev.before \o PayloadOf(argv[1])
       /\ After(1) = prev.before \o PayloadOf(argv[1]) \o PayloadOf(argv[1])
       /\ After(1) # Before(1)

C8_Witness ==
  /\ Succeeded(1)
  /\ prev.ok
  /\ prev.cl = argv[1]
  /\ argv[1].c = <<"a">>
  /\ argv[1].n = "True"
  /\ prev.before = <<"a">>
  /\ After(1) = <<"a", NL, "a", NL, "a">>

\* the outcomes of an invocation
AppendOutcome(p) ==
  /\ status[p] = 0
  /\ WellFormed(p)
  /\ exc[p] = "none"
  /\ fs[argv[p].f].kind = "file"
  /\ After(p) = Before(p) \o PayloadOf(argv[p])
ArgumentFailure(p) ==
  /\ status[p] # 0
  /\ ~AllGiven(p)
  /\ exc[p] = "none"
IOFailure(p) ==
  /\ status[p] # 0
  /\ AllGiven(p)
  /\ exc[p] # "none"
HelpOutcome(p) ==
  /\ status[p] = 0
  /\ "-h" \in argv[p].given
  /\ out[p]
  /\ fs = start[p]

\* a successful invocation changes the target and nothing else, and writes
\* nothing to standard output
AppendFrame(p) ==
  AppendOutcome(p) => (OthersUnchanged(p) /\ ~out[p] /\ ~err[p])

BoolToNat(b) == IF b THEN 1 ELSE 0

\* C9 as stated: an invocation ends in exactly one of successful append with
\* status 0, argument failure with a status that is not 0, I/O failure with a
\* status that is not 0; a successful one changes the target only
C9_Stated ==
  Done(1) =>
    /\ BoolToNat(AppendOutcome(1)) + BoolToNat(ArgumentFailure(1))
         + BoolToNat(IOFailure(1)) = 1
    /\ AppendFrame(1)

\* C9 amended: an invocation ends in exactly one of successful append with
\* status 0, argument failure with a status that is not 0, I/O failure with a
\* status that is not 0, or, with -h on the command line, the usage on
\* standard output, status 0 and no change to the filesystem; a successful
\* append changes the target only and writes nothing to standard output
C9_Outcomes ==
  Done(1) =>
    /\ BoolToNat(AppendOutcome(1)) + BoolToNat(ArgumentFailure(1))
         + BoolToNat(IOFailure(1)) + BoolToNat(HelpOutcome(1)) = 1
    /\ AppendFrame(1)

C9_Witness ==
  /\ Done(1)
  /\ AppendOutcome(1)
  /\ argv[1].f = "out.txt"
  /\ argv[1].c = <<"a">>
  /\ Before(1) = <<"a">>
  /\ OthersUnchanged(1)
  /\ ~out[1]

\* C10: when two invocations on the same file run at the same time and both
\* succeed, the file holds what it held followed by the two payloads, whole,
\* in one order or the other
C10_BothPayloadsWhole ==
  (Succeeded(1) /\ Succeeded(2) /\ argv[1].f = argv[2].f)
    => \/ After(1) = Before(1) \o PayloadOf(argv[1]) \o PayloadOf(argv[2])
       \/ After(1) = Before(1) \o PayloadOf(argv[2]) \o PayloadOf(argv[1])

C10_Witness ==
  /\ Succeeded(1)
  /\ Succeeded(2)
  /\ overlapped
  /\ argv[1].c = <<"a">>
  /\ argv[1].n = "False"
  /\ argv[2].c = <<"a">>
  /\ argv[2].n = "True"
  /\ Before(1) = <<"a">>
  /\ After(1) = <<"a", NL, "a", "a">>

====
